---- MODULE Spec2Model ----
(***************************************************************************)
(* create_custom_orientation of tanjung-priok-strong-orientation.py as a   *)
(* state machine: one action per step of the pipeline (flexible marking,   *)
(* bridge filter, one-way cut node filter, partition of the arcs, one      *)
(* iteration of the orientation loop, final verification).                 *)
(*                                                                         *)
(* A graph is a record [nodes, arcs]; an arc of the working graph is a     *)
(* record [u, v, oneway, flexible].  Between two nodes the input holds at  *)
(* most one arc per direction and no self-loop, and a connected pair of    *)
(* nodes is either fixed (oneway arcs) or flexible (non-oneway arcs): the  *)
(* engine does not treat parallel connections or self-loops.  A flexible   *)
(* connection may be given as both opposing arcs or as one arc alone.      *)
(*                                                                         *)
(* Orders the code takes from the library (which of several largest        *)
(* components max() meets first, the iteration order of a Python set) are  *)
(* not fixed by the graph value and are drawn nondeterministically.        *)
(***************************************************************************)
EXTENDS Integers, FiniteSets, Sequences, TLC

\* Bounds of the model.
MaxNodes == 4
MaxEdges == 3

VARIABLES
  G_raw,                \* the input graph (never changed: line 45 copies it)
  G,                    \* the working graph
  pc,                   \* position in create_custom_orientation
  edges_to_decide_set,  \* line 80: the flexible edges, as sets {u, v}
  undecided_edges,      \* line 87: the edges of the list the loop has not reached
  oriented_arcs,        \* line 88: the arcs in the committed list, as pairs <<u, v>>
  final_graph           \* the value returned (line 108 or line 111)

vars == <<G_raw, G, pc, edges_to_decide_set, undecided_edges, oriented_arcs, final_graph>>

-----------------------------------------------------------------------------
\* Graph values

EmptyGraph == [nodes |-> {}, arcs |-> {}]

Arc(a, b, ow) == [u |-> a, v |-> b, oneway |-> ow, flexible |-> FALSE]

\* The arcs as pairs <<from, to>>.
Pairs(arcs) == {<<a.u, a.v>> : a \in arcs}

Rev(P) == {<<p[2], p[1]>> : p \in P}

\* G.has_edge(a, b)
has_edge(g, a, b) == <<a, b>> \in Pairs(g.arcs)

\* G.subgraph(S).copy(): the induced subgraph, attributes kept.
subgraph(g, S) ==
  [nodes |-> g.nodes \cap S,
   arcs  |-> {a \in g.arcs : a.u \in S /\ a.v \in S}]

\* G.remove_nodes_from(S): the nodes and their incident arcs.
remove_nodes_from(g, S) == subgraph(g, g.nodes \ S)

\* The nodes reachable from the set S along the pairs P.
RECURSIVE Grow(_, _)
Grow(S, P) ==
  LET T == S \cup {p[2] : p \in {q \in P : q[1] \in S}}
  IN  IF T = S THEN S ELSE Grow(T, P)

\* nx.is_strongly_connected on a graph with at least one node.
is_strongly_connected(nodes, P) ==
  LET r == CHOOSE n \in nodes : TRUE
  IN  /\ Grow({r}, P) = nodes
      /\ Grow({r}, Rev(P)) = nodes

\* nx.strongly_connected_components: the node sets.
strongly_connected_components(nodes, P) ==
  {Grow({n}, P) \cap Grow({n}, Rev(P)) : n \in nodes}

\* nx.connected_components(nx.Graph(G)): the node sets.
connected_components(nodes, P) ==
  {Grow({n}, P \cup Rev(P)) : n \in nodes}

\* The sets max(..., key=len) can return: the first largest one met, in the
\* library's enumeration order.
Largest(SS) == {c \in SS : \A d \in SS : Cardinality(d) <= Cardinality(c)}

\* nx.bridges(nx.Graph(G)): the undirected edges {a, b} whose removal
\* disconnects a from b.
bridges(g) ==
  LET P == Pairs(g.arcs)
      U == P \cup Rev(P)
  IN  {{p[1], p[2]} : p \in {q \in P :
          q[2] \notin Grow({q[1]}, U \ {q, <<q[2], q[1]>>})}}

-----------------------------------------------------------------------------
\* mark_flexible marking every arc, the oneway ones too.
mark_flexible_all(g) ==
  [g EXCEPT !.arcs = {[a EXCEPT !.flexible = TRUE] : a \in g.arcs}]

\* Lines 48-50: every arc whose oneway is not true is marked flexible.
mark_flexible(g) ==
  [g EXCEPT !.arcs = {[a EXCEPT !.flexible = ~a.oneway] : a \in g.arcs}]

\* Lines 57-59: both arcs between the endpoints of every bridge are removed.
remove_bridges(g, B) ==
  [g EXCEPT !.arcs = {a \in g.arcs : {a.u, a.v} \notin B}]

\* Lines 53-65 (step 1): the graphs the bridge filter can leave.
bridge_filter(g) ==
  LET B == bridges(g)
  IN  IF B # {}
      THEN LET h == remove_bridges(g, B)
           IN  {subgraph(h, c) :
                  c \in Largest(connected_components(h.nodes, Pairs(h.arcs)))}
      ELSE {g}

\* detection_oneway_cut without the two-way neighbour test.
detection_without_neighbor_test(g) ==
  {r \in [node : g.nodes, direction : {"all in", "all out"}] :
     LET in_arcs  == {a \in g.arcs : a.v = r.node /\ a.oneway}
         out_arcs == {a \in g.arcs : a.u = r.node /\ a.oneway}
     IN  IF r.direction = "all in"
         THEN in_arcs # {} /\ out_arcs = {}
         ELSE out_arcs # {} /\ in_arcs = {}}

\* Lines 15-31: the records {"node", "direction"} of the one-way cut nodes.
detection_oneway_cut(g) ==
  {r \in [node : g.nodes, direction : {"all in", "all out"}] :
     LET in_arcs  == {a \in g.arcs : a.v = r.node /\ a.oneway}
         out_arcs == {a \in g.arcs : a.u = r.node /\ a.oneway}
         two_way_neighbor ==
           \E a \in g.arcs : a.u = r.node /\ has_edge(g, a.v, r.node)
     IN  IF r.direction = "all in"
         THEN in_arcs # {} /\ out_arcs = {} /\ ~two_way_neighbor
         ELSE out_arcs # {} /\ in_arcs = {} /\ ~two_way_neighbor}

\* get_largest_scc taking the largest connected component instead.
get_largest_scc_weak(g) ==
  IF g.nodes = {}
  THEN {EmptyGraph}
  ELSE {subgraph(g, c) :
          c \in Largest(connected_components(g.nodes, Pairs(g.arcs)))}

\* Lines 6-13: the graphs get_largest_scc can return.
get_largest_scc(g) ==
  IF g.nodes = {}
  THEN {EmptyGraph}
  ELSE {subgraph(g, c) :
          c \in Largest(strongly_connected_components(g.nodes, Pairs(g.arcs)))}

\* cut_node_filter without the extraction of the largest component.
cut_node_filter_remove_only(g) ==
  {remove_nodes_from(g, {r.node : r \in detection_oneway_cut(g)})}

\* Lines 68-76 (step 2): the graphs the cut-node filter can leave.
cut_node_filter(g) ==
  LET one_way_cuts == detection_oneway_cut(g)
  IN  IF one_way_cuts # {}
      THEN get_largest_scc(remove_nodes_from(g, {r.node : r \in one_way_cuts}))
      ELSE {g}

\* Lines 81-85: the partition of the arcs.
fixed_arcs(g) == {<<a.u, a.v>> : a \in {b \in g.arcs : ~b.flexible}}

edges_to_decide(g) == {{a.u, a.v} : a \in {b \in g.arcs : b.flexible}}

\* Lines 38-40: both directions of every undecided edge.
BothDirections(E) == {p \in UNION {e \X e : e \in E} : p[1] # p[2]}

\* is_still_strongly_connected without the undecided edges.
is_still_strongly_connected_committed_only(nodes, arcs, undecided) ==
  is_strongly_connected(nodes, arcs)

\* Lines 33-41.
is_still_strongly_connected(nodes, arcs, undecided) ==
  is_strongly_connected(nodes, arcs \cup BothDirections(undecided))

\* commit without the else branch.
commit_forward_only(nodes, arcs, u, v, remaining) ==
  IF is_still_strongly_connected(nodes, arcs \cup {<<u, v>>}, remaining)
  THEN arcs \cup {<<u, v>>}
  ELSE arcs

\* Lines 96-99: the committed arcs after the iteration that tries u -> v, the
\* edges of remaining being later in the list.
commit(nodes, arcs, u, v, remaining) ==
  IF is_still_strongly_connected(nodes, arcs \cup {<<u, v>>}, remaining)
  THEN arcs \cup {<<u, v>>}
  ELSE arcs \cup {<<v, u>>}

\* Lines 102-104: the graph built from the nodes and the committed arcs.
build_final_graph(nodes, arcs) ==
  [nodes |-> nodes, arcs |-> {[u |-> p[1], v |-> p[2]] : p \in arcs}]

-----------------------------------------------------------------------------
\* The input graphs: nodes 1..n, and on every connected pair of nodes a < b
\* one kind of connection.
Kinds == {"fixed_ab", "fixed_ba", "fixed_both", "flex_ab", "flex_ba", "flex_both"}

ArcsOf(p, k) ==
  CASE k = "fixed_ab"   -> {Arc(p[1], p[2], TRUE)}
    [] k = "fixed_ba"   -> {Arc(p[2], p[1], TRUE)}
    [] k = "fixed_both" -> {Arc(p[1], p[2], TRUE), Arc(p[2], p[1], TRUE)}
    [] k = "flex_ab"    -> {Arc(p[1], p[2], FALSE)}
    [] k = "flex_ba"    -> {Arc(p[2], p[1], FALSE)}
    [] k = "flex_both"  -> {Arc(p[1], p[2], FALSE), Arc(p[2], p[1], FALSE)}

InputGraph(n, E, kind) ==
  [nodes |-> 1..n, arcs |-> UNION {ArcsOf(p, kind[p]) : p \in E}]

NodePairs(n) == {p \in (1..n) \X (1..n) : p[1] < p[2]}

InitWith(maxNodes, maxEdges) ==
  /\ \E n \in 0..maxNodes :
       \E E \in SUBSET NodePairs(n) :
         /\ Cardinality(E) <= maxEdges
         /\ \E kind \in [E -> Kinds] : G_raw = InputGraph(n, E, kind)
  /\ G = G_raw                                   \* line 45
  /\ pc = "mark"
  /\ edges_to_decide_set = {}
  /\ undecided_edges = {}
  /\ oriented_arcs = {}
  /\ final_graph = EmptyGraph

Init == InitWith(MaxNodes, MaxEdges)

-----------------------------------------------------------------------------
\* Lines 48-50.
MarkFlexible ==
  /\ pc = "mark"
  /\ G' = mark_flexible(G)
  /\ pc' = "step1"
  /\ UNCHANGED <<G_raw, edges_to_decide_set, undecided_edges, oriented_arcs, final_graph>>

\* Lines 52-65.
Step1 ==
  /\ pc = "step1"
  /\ G' \in bridge_filter(G)
  /\ pc' = "step2"
  /\ UNCHANGED <<G_raw, edges_to_decide_set, undecided_edges, oriented_arcs, final_graph>>

\* Lines 67-76.
Step2 ==
  /\ pc = "step2"
  /\ G' \in cut_node_filter(G)
  /\ pc' = "step3"
  /\ UNCHANGED <<G_raw, edges_to_decide_set, undecided_edges, oriented_arcs, final_graph>>

\* Lines 78-91.
Step3 ==
  /\ pc = "step3"
  /\ edges_to_decide_set' = edges_to_decide(G)
  /\ undecided_edges' = edges_to_decide(G)
  /\ oriented_arcs' = fixed_arcs(G)
  /\ pc' = "orient"
  /\ UNCHANGED <<G_raw, G, final_graph>>

\* Lines 92-99, one iteration.  Line 87 lays the list out in the iteration
\* order of a set and of each frozenset, so the edge at position i and the
\* endpoint it holds first are drawn when the loop reaches position i; the
\* edges still in undecided_edges are undecided_edges[i+1:] of the code.
Orient ==
  /\ pc = "orient"
  /\ \E edge \in undecided_edges :
       \E u \in edge :
         LET v == CHOOSE w \in edge : w # u
             remaining_undecided == undecided_edges \ {edge}
         IN  /\ oriented_arcs' = commit(G.nodes, oriented_arcs, u, v, remaining_undecided)
             /\ undecided_edges' = remaining_undecided
  /\ UNCHANGED <<G_raw, G, pc, edges_to_decide_set, final_graph>>

\* Lines 101-111: nx.is_strongly_connected raises NetworkXPointlessConcept on a
\* graph without nodes.
Step4 ==
  /\ pc = "orient"
  /\ undecided_edges = {}
  /\ LET built == build_final_graph(G.nodes, oriented_arcs)
     IN  IF built.nodes = {}
         THEN /\ pc' = "raised"
              /\ final_graph' = final_graph
         ELSE IF is_strongly_connected(built.nodes, Pairs(built.arcs))
              THEN /\ pc' = "returned_final"
                   /\ final_graph' = built
              ELSE /\ pc' = "returned_scc"
                   /\ final_graph' \in get_largest_scc(built)
  /\ UNCHANGED <<G_raw, G, edges_to_decide_set, undecided_edges, oriented_arcs>>

Next == MarkFlexible \/ Step1 \/ Step2 \/ Step3 \/ Orient \/ Step4

Spec == Init /\ [][Next]_vars

\* The same program on inputs with up to two more connected pairs of nodes.
InitWide == InitWith(MaxNodes, MaxEdges + 2)

SpecWide == InitWide /\ [][Next]_vars

-----------------------------------------------------------------------------
\* Vocabulary of the properties

Returned == pc \in {"returned_final", "returned_scc"}

LoopFinished == (pc = "orient" /\ undecided_edges = {}) \/ Returned

\* Every node of nodes reaches every node of nodes along the pairs P.
AllReach(nodes, P) == \A a \in nodes : nodes \subseteq Grow({a}, P)

\* The arcs of g with every flexible arc traversable in both directions.
Relaxed(g) ==
  Pairs(g.arcs) \cup Rev(Pairs({a \in g.arcs : ~a.oneway}))

\* Node n lies on a directed cycle of the pairs P.
OnCycle(n, P) == \E p \in P : p[1] = n /\ n \in Grow({p[2]}, P)

\* Exactly one direction of the edge e is among the pairs P.
ExactlyOne(e, P) == Cardinality(BothDirections({e}) \cap P) = 1

\* Every non-oneway arc of g has its reverse arc in g.
Paired(g) == \A a \in g.arcs : ~a.oneway => has_edge(g, a.v, a.u)

\* The input graph with its flexible marks.
Marked == mark_flexible(G_raw)

-----------------------------------------------------------------------------
\* C1: whenever create_custom_orientation has returned a graph with at least
\* one node, every node of it reaches every other node along its arcs, after
\* the first-try verification as well as after the largest-SCC fallback.
C1_ResultStronglyConnected ==
  (Returned /\ final_graph.nodes # {})
    => AllReach(final_graph.nodes, Pairs(final_graph.arcs))

\* The fallback has returned a component of two or more nodes.
C1_Witness ==
  pc = "returned_scc" /\ Cardinality(final_graph.nodes) >= 2

\* C2: create_custom_orientation never ends in an error: no run reaches the
\* raise of nx.is_strongly_connected.
C2_NeverRaises == pc # "raised"

EdgeKey(e) ==
  LET lo == CHOOSE a \in e : \A b \in e : a <= b
      hi == CHOOSE a \in e : \A b \in e : b <= a
  IN  <<lo, hi>>

FirstEdge(E) ==
  CHOOSE e \in E : \A f \in E :
    \/ EdgeKey(e)[1] < EdgeKey(f)[1]
    \/ EdgeKey(e)[1] = EdgeKey(f)[1] /\ EdgeKey(e)[2] <= EdgeKey(f)[2]

RECURSIVE OrientInOrder(_, _, _)
OrientInOrder(nodes, arcs, E) ==
  IF E = {}
  THEN arcs
  ELSE LET e == FirstEdge(E)
       IN  OrientInOrder(nodes,
             commit(nodes, arcs, EdgeKey(e)[1], EdgeKey(e)[2], E \ {e}), E \ {e})

\* C5: the oriented arcs are fixed by the input: every run on the same graph
\* commits the arcs that the run taking the edges in one fixed order commits.
C5_Deterministic ==
  LoopFinished =>
    oriented_arcs = OrientInOrder(G.nodes, fixed_arcs(G), edges_to_decide(G))

\* C6: the graph leaving step 1 is the induced subgraph on a largest connected
\* component of the input without its bridges: no arc joins the endpoints of a
\* bridge, and its undirected topology is connected.
C6_Step1LargestComponent ==
  (pc = "step2" /\ G_raw.nodes # {}) =>
    LET h == remove_bridges(Marked, bridges(Marked))
    IN  /\ G.nodes \in Largest(connected_components(h.nodes, Pairs(h.arcs)))
        /\ G = subgraph(Marked, G.nodes)
        /\ \A a \in G.arcs : {a.u, a.v} \notin bridges(Marked)
        /\ AllReach(G.nodes, Pairs(G.arcs) \cup Rev(Pairs(G.arcs)))

\* C7: step 2 leaves the induced subgraph on a largest strongly connected
\* component of the step-1 graph without its detected one-way cut nodes, so
\* that the graph handed to the orientation step is strongly connected when
\* every flexible edge is taken in both directions.  Stated by that consequence,
\* for a step-1 graph whose undirected topology is connected (which is what C6
\* says step 1 leaves).
C7_Step2StronglyConnected ==
  [][(pc = "step2" /\ AllReach(G.nodes, Pairs(G.arcs) \cup Rev(Pairs(G.arcs))))
       => AllReach(G'.nodes, Relaxed(G'))]_vars

\* The hypothesis of C8 on the graph entering the orientation step.
C8_Hypothesis ==
  /\ G.nodes # {}
  /\ AllReach(G.nodes, Relaxed(G))
  /\ bridges(G) = {}

\* C8: if the graph entering the orientation step is strongly connected with
\* every flexible edge taken in both directions and has no bridge, then after
\* every iteration the committed arcs with both directions of the undecided
\* edges are strongly connected on all nodes, the verification succeeds
\* without the fallback, and the result keeps every node with exactly one arc
\* per flexible edge.
C8_OrientationKeepsFeasibility ==
  ((pc = "orient" \/ Returned) /\ C8_Hypothesis) =>
    /\ AllReach(G.nodes, oriented_arcs \cup BothDirections(undecided_edges))
    /\ Returned =>
         /\ pc = "returned_final"
         /\ final_graph.nodes = G.nodes
         /\ Pairs(final_graph.arcs) = oriented_arcs
         /\ \A e \in edges_to_decide(G) : ExactlyOne(e, Pairs(final_graph.arcs))
         /\ Cardinality(final_graph.arcs)
              = Cardinality(fixed_arcs(G)) + Cardinality(edges_to_decide(G))

\* A graph under the hypothesis, with a fixed arc and two or more flexible
\* edges, has been oriented and returned.
C8_Witness ==
  /\ pc = "returned_final"
  /\ C8_Hypothesis
  /\ fixed_arcs(G) # {}
  /\ Cardinality(edges_to_decide(G)) >= 2

\* No non-oneway arc without its reverse arc is incident to node n.
NoLoneFlexibleAt(g, n) ==
  \A a \in g.arcs :
    (~a.oneway /\ n \in {a.u, a.v}) => has_edge(g, a.v, a.u)

\* C9 as claimed: every node detection_oneway_cut classifies lies on no
\* directed cycle of the graph with every flexible arc taken in both
\* directions.
C9_CutNodeOnNoCycle ==
  pc = "step2" =>
    \A r \in detection_oneway_cut(G) : ~OnCycle(r.node, Relaxed(G))

\* C9 as amended: every node detection_oneway_cut classifies, unless a
\* non-oneway arc without its reverse arc is incident to it, lies on no
\* directed cycle of the graph with every flexible arc taken in both
\* directions.
C9_CutNodeOnNoCycleUnlessLoneArc ==
  pc = "step2" =>
    \A r \in detection_oneway_cut(G) :
      NoLoneFlexibleAt(G, r.node) => ~OnCycle(r.node, Relaxed(G))

\* A node with two oneway arcs and no lone non-oneway arc is classified.
C9_Witness ==
  /\ pc = "step2"
  /\ \E r \in detection_oneway_cut(G) :
       /\ NoLoneFlexibleAt(G, r.node)
       /\ Cardinality({a \in G.arcs : r.node \in {a.u, a.v}}) >= 2

\* C10 as claimed: detection_oneway_cut finds no node in the graph that leaves
\* step 2.
C10_SinglePassFixpoint ==
  pc = "step3" => detection_oneway_cut(G) = {}

\* C10 as amended: detection_oneway_cut finds no node in the graph that leaves
\* step 2 when every non-oneway arc of that graph has its reverse arc in it.
C10_SinglePassFixpointIfPaired ==
  (pc = "step3" /\ Paired(G)) => detection_oneway_cut(G) = {}

\* Step 2 has removed nodes from a graph without bridges and left a paired
\* graph of two or more nodes that holds oneway and non-oneway arcs.
C10_Witness ==
  /\ pc = "step3"
  /\ Paired(G)
  /\ bridges(Marked) = {}
  /\ G.nodes # G_raw.nodes
  /\ Cardinality(G.nodes) >= 2
  /\ \E a \in G.arcs : a.oneway
  /\ \E a \in G.arcs : ~a.oneway

=============================================================================
